---- MODULE Spec2Model ----
(***************************************************************************)
(* Model of the embedded.io content scripts (src/script/*.py).             *)
(*                                                                         *)
(* Text is modelled as a sequence of tokens.  A token is a label           *)
(* ("Position:"), a hashtag ("#events"), a word, a blank " " or a line     *)
(* break "\n".  Regular-expression searches of the scripts are modelled    *)
(* on tokens with the matching rules of Python's re module: "\s*" covers   *)
(* blanks and line breaks, "." stops at a line break unless re.S is given, *)
(* "+" needs one token at least, ".+?" is the shortest match.              *)
(***************************************************************************)
EXTENDS Naturals, Sequences, FiniteSets, TLC

VARIABLES
    script,                 \* the script the process runs
    pc,                     \* position of the process in the script
    posts,                  \* the feed returned by the Graph API
    i,                      \* index of the next element of the loop
    data,                   \* the list the script builds in memory
    recruitments_json,      \* categories/recruitments.json
    events_json,            \* categories/events.json
    facebook_posts_json,    \* categories/facebook_posts.json
    companies_json,         \* categories/companies.json
    authors_json,           \* authors/authors.json
    prior,                  \* the store as it was when the run started
    loads,                  \* reads of the store file in this run
    writes,                 \* writes of the store file in this run
    report,                 \* outcome of each candidate of this run
    text,                   \* a post body handed to the parsers
    job,                    \* result of parse_job_post
    event                   \* result of post_to_json

vars == <<script, pc, posts, i, data, recruitments_json, events_json,
          facebook_posts_json, companies_json, authors_json, prior, loads,
          writes, report, text, job, event>>

-----------------------------------------------------------------------------
(* Bounds of the model *)

MaxFeed == 2
MaxBody == 4
MaxCompanies == 3
MaxAuthors == 2

-----------------------------------------------------------------------------
(* Python values *)

None == [kind |-> "None"]
Str(s) == [kind |-> "str", val |-> s]
List(l) == [kind |-> "list", items |-> l]

\* bool(v) of a value a parser stored: None and the empty string are false
Truthy(v) == v.kind # "None" /\ (v.kind = "str" => v.val # <<>>)

SeqsUpTo(S, n) == UNION {[1..k -> S] : k \in 0..n}

-----------------------------------------------------------------------------
(* str methods *)

IsSpace(t) == t \in {" ", "\n"}

LowerPairs ==
    {<<"#RECRUITMENT", "#recruitment">>, <<"#Events", "#events">>,
     <<"#POSTS", "#posts">>, <<"NULL", "null">>,
     <<"Title:", "title:">>, <<"TITLE:", "title:">>, <<"Date:", "date:">>,
     <<"Location:", "location:">>, <<"Categories:", "categories:">>,
     <<"Members:", "members:">>, <<"Logo:", "logo:">>,
     <<"Background:", "background:">>, <<"URL:", "url:">>,
     <<"Description:", "description:">>}

\* str.lower() of one token
Lower(t) ==
    IF \E p \in LowerPairs : p[1] = t
    THEN (CHOOSE p \in LowerPairs : p[1] = t)[2]
    ELSE t

\* needle in message.lower()
ContainsLower(message, needle) ==
    \E k \in 1..Len(message) : Lower(message[k]) = needle

\* s.strip(chars)
StripChars(s, chars) ==
    LET keep == {k \in 1..Len(s) : s[k] \notin chars}
    IN  IF keep = {} THEN <<>>
        ELSE LET lo == CHOOSE k \in keep : \A m \in keep : k <= m
                 hi == CHOOSE k \in keep : \A m \in keep : k >= m
             IN  SubSeq(s, lo, hi)

\* s.strip()
Strip(s) == StripChars(s, {" ", "\n"})

\* s.splitlines()
RECURSIVE SplitLines(_)
SplitLines(s) ==
    IF s = <<>> THEN <<>>
    ELSE IF \E k \in 1..Len(s) : s[k] = "\n"
         THEN LET nl == CHOOSE k \in 1..Len(s) :
                           s[k] = "\n" /\ \A m \in 1..(k - 1) : s[m] # "\n"
              IN  <<SubSeq(s, 1, nl - 1)>> \o SplitLines(SubSeq(s, nl + 1, Len(s)))
         ELSE <<s>>

\* s.split("\n")[0]
FirstLine(s) ==
    IF \E k \in 1..Len(s) : s[k] = "\n"
    THEN LET nl == CHOOSE k \in 1..Len(s) :
                      s[k] = "\n" /\ \A m \in 1..(k - 1) : s[m] # "\n"
         IN  SubSeq(s, 1, nl - 1)
    ELSE s

-----------------------------------------------------------------------------
(* re.search *)

NoMatch == [found |-> FALSE, group |-> <<>>]

\* last index of the line that index k of s is on ("." does not match "\n")
LineEnd(s, k) ==
    IF \E m \in k..Len(s) : s[m] = "\n"
    THEN (CHOOSE m \in k..Len(s) :
             s[m] = "\n" /\ \A q \in k..(m - 1) : s[q] # "\n") - 1
    ELSE Len(s)

\* where group 1 of "label\s*(.+)" starts when the label is matched at p, 0 when
\* the pattern does not match there: "\s*" is greedy and gives back blanks, one
\* at a time, until ".+" finds a token that is not a line break.
GroupStart(s, p) ==
    LET after == {k \in (p + 1)..Len(s) : ~IsSpace(s[k])}
    IN  IF after # {}
        THEN CHOOSE k \in after : \A m \in after : k <= m
        ELSE LET back == {k \in (p + 1)..Len(s) : s[k] # "\n"}
             IN  IF back = {} THEN 0
                 ELSE CHOOSE k \in back : \A m \in back : k >= m

LabelIs(t, label, ignorecase) ==
    IF ignorecase THEN Lower(t) = Lower(label) ELSE t = label

\* re.search(label + r"\s*(.+)", s, flags): the leftmost match
SearchLine(label, s, ignorecase) ==
    LET at == {p \in 1..Len(s) :
                  LabelIs(s[p], label, ignorecase) /\ GroupStart(s, p) # 0}
    IN  IF at = {} THEN NoMatch
        ELSE LET p == CHOOSE q \in at : \A m \in at : q <= m
                 g == GroupStart(s, p)
             IN  [found |-> TRUE, group |-> SubSeq(s, g, LineEnd(s, g))]

\* re.search(label + r"\s*(.+)", s, re.IGNORECASE | re.DOTALL)
SearchRest(label, s) ==
    LET at == {p \in 1..Len(s) : LabelIs(s[p], label, TRUE) /\ p < Len(s)}
    IN  IF at = {} THEN NoMatch
        ELSE LET p == CHOOSE q \in at : \A m \in at : q <= m
                 after == {k \in (p + 1)..Len(s) : ~IsSpace(s[k])}
                 g == IF after # {}
                      THEN CHOOSE k \in after : \A m \in after : k <= m
                      ELSE Len(s)
             IN  [found |-> TRUE, group |-> SubSeq(s, g, Len(s))]

\* re.search(start + r"(.+?)" + stop, s, re.S): from the leftmost start label, the
\* shortest non-empty span that a stop label follows
SearchBlock(start, stop, s) ==
    LET at == {p \in 1..Len(s) :
                  s[p] = start /\ \E e \in (p + 2)..Len(s) : s[e] = stop}
    IN  IF at = {} THEN NoMatch
        ELSE LET p == CHOOSE q \in at : \A m \in at : q <= m
                 ends == {e \in (p + 2)..Len(s) : s[e] = stop}
                 e == CHOOSE q \in ends : \A m \in ends : q <= m
             IN  [found |-> TRUE, group |-> SubSeq(s, p + 1, e - 1)]

\* [line.strip("- ").strip() for line in block.strip().splitlines() if line.strip()]
BlockItems(block) ==
    LET lines == SplitLines(Strip(block))
        kept == SelectSeq(lines, LAMBDA l : Strip(l) # <<>>)
    IN  [k \in 1..Len(kept) |-> Strip(StripChars(kept[k], {"-", " "}))]

-----------------------------------------------------------------------------
(* recruitments.py: the parser *)

\* a run of non-ASCII characters (an emoji, an icon) is one token
IsEmoji(t) == t = "<emoji>"

remove_emojis(s) == SelectSeq(s, LAMBDA t : ~IsEmoji(t))

\* dict.get(key): the value, or None (the stored values are wrapped as Str)
Get(d, key) == IF key \in DOMAIN d THEN Str(d[key]) ELSE None

EmptyDict == [k \in {} |-> None]

\* one "match = re.search(...); if match: job[key] = ..." step
Entry(found, key, value) == IF found THEN key :> value ELSE EmptyDict

\* the mutant of Location: each sub-label's value ends where the next label starts
UpToLabel(s) ==
    LET labels == {k \in 1..Len(s) : s[k] \in {"Type:", "Address:", "City:"}}
    IN  IF labels = {} THEN s
        ELSE SubSeq(s, 1, (CHOOSE k \in labels : \A m \in labels : k <= m) - 1)

SubLabelCut(loc_block, label) ==
    LET m == SearchLine(label, loc_block, FALSE)
    IN  IF m.found THEN Strip(UpToLabel(m.group)) ELSE <<>>

\* loc_x.group(1).strip() if loc_x else ""
SubLabel(loc_block, label) ==
    LET m == SearchLine(label, loc_block, FALSE)
    IN  IF m.found THEN Strip(m.group) ELSE <<>>

Location(loc_block) ==
    [type |-> SubLabel(loc_block, "Type:"),
     address |-> SubLabel(loc_block, "Address:"),
     city |-> SubLabel(loc_block, "City:")]

\* a single-line field: job[key] = match.group(1).strip()
LineField(clean_text, label, key) ==
    LET m == SearchLine(label, clean_text, FALSE)
    IN  Entry(m.found, key, Strip(m.group))

\* an itemized block field
BlockField(clean_text, start, stop, key) ==
    LET m == SearchBlock(start, stop, clean_text)
    IN  Entry(m.found, key, BlockItems(m.group))

Apply(clean_text) ==
    LineField(clean_text, "Email:", "email")
        @@ LineField(clean_text, "Contact:", "contact_person")

parse_job_post(post) ==
    LET clean_text == remove_emojis(IF "message" \in DOMAIN post
                                    THEN post.message ELSE <<>>)
        company == SearchLine("Company:", clean_text, FALSE)
        loc == SearchBlock("Location:", "Salary:", clean_text)
        apply == Apply(clean_text)
    IN  [id |-> post.id,
         created_time |-> post.created_time,
         full_picture |-> Get(post, "full_picture")]
        @@ Entry(company.found, "company", [name |-> Strip(company.group)])
        @@ LineField(clean_text, "Position:", "title")
        @@ LineField(clean_text, "Description:", "description")
        @@ LineField(clean_text, "Level:", "level")
        @@ Entry(loc.found, "location", Location(loc.group))
        @@ LineField(clean_text, "Salary:", "salary")
        @@ LineField(clean_text, "Work Time:", "work_time")
        @@ BlockField(clean_text, "Requirements:", "Benefits:", "requirements")
        @@ BlockField(clean_text, "Benefits:", "Deadline:", "benefits")
        @@ LineField(clean_text, "Deadline:", "apply_deadline")
        @@ Entry(apply # EmptyDict, "apply", apply)
        @@ BlockField(clean_text, "Tags:", "Apply:", "tags")

\* the keys parse_job_post can set
JobFields ==
    {"id", "created_time", "full_picture", "company", "title", "description",
     "level", "location", "salary", "work_time", "requirements", "benefits",
     "apply_deadline", "apply", "tags"}

-----------------------------------------------------------------------------
(* events.py: the parser *)

\* re.split(r"[|,]", value), each piece stripped
RECURSIVE SplitCategories(_)
SplitCategories(s) ==
    IF \E k \in 1..Len(s) : s[k] \in {"|", ","}
    THEN LET d == CHOOSE k \in 1..Len(s) :
                     s[k] \in {"|", ","} /\ \A m \in 1..(k - 1) : s[m] \notin {"|", ","}
         IN  <<Strip(SubSeq(s, 1, d - 1))>> \o SplitCategories(SubSeq(s, d + 1, Len(s)))
    ELSE <<Strip(s)>>

DefaultBackground == <<"linear-gradient(45deg, #FDEB71, #F8D800)">>

\* the body of the loop over patterns, for one key
EventValue(key, label, post_text) ==
    LET m == SearchLine(label, post_text, TRUE)
        value == Strip(m.group)
    IN  IF m.found
        THEN IF key = "categories" THEN List(SplitCategories(value))
             ELSE IF Len(value) = 1 /\ Lower(value[1]) = "null" THEN None
             ELSE Str(value)
        ELSE None

post_to_json(post_text) ==
    LET d == [title |-> EventValue("title", "Title:", post_text),
              date |-> EventValue("date", "Date:", post_text),
              location |-> EventValue("location", "Location:", post_text),
              categories |-> EventValue("categories", "Categories:", post_text),
              members |-> EventValue("members", "Members:", post_text),
              logo |-> EventValue("logo", "Logo:", post_text),
              background |-> EventValue("background", "Background:", post_text),
              url |-> EventValue("url", "URL:", post_text),
              description |-> EventValue("description", "Description:", post_text)]
    IN  [d EXCEPT !.logo = IF Truthy(@) THEN @ ELSE None,
                  !.members = IF Truthy(@) THEN @ ELSE None,
                  !.background = IF Truthy(@) THEN @ ELSE Str(DefaultBackground)]

EventFields ==
    {"title", "date", "location", "categories", "members", "logo", "background",
     "url", "description"}

-----------------------------------------------------------------------------
(* Variable groups; a specification leaves the groups it does not use alone *)

runVars == <<posts, i, data, prior, loads, writes, report>>
ingestFiles == <<recruitments_json, events_json, facebook_posts_json>>
rebuildFiles == <<companies_json, authors_json>>
parseVars == <<text, job, event>>

RunIdle ==
    /\ posts = <<>> /\ i = 1 /\ data = <<>> /\ prior = <<>>
    /\ loads = 0 /\ writes = 0 /\ report = <<>>

FilesAbsent ==
    /\ recruitments_json = <<>> /\ events_json = <<>> /\ facebook_posts_json = <<>>
    /\ companies_json = <<>> /\ authors_json = <<>>

ParseIdle == text = <<>> /\ job = EmptyDict /\ event = EmptyDict

-----------------------------------------------------------------------------
(* The parsers applied to one post body *)

BodyAlphabet == {"Type:", "Address:", "City:", "Salary:", "w", " ", "\n"}

\* a post with a Location section around the body
Framed(body) == <<"Position:", "w", "\n", "Location:">> \o body \o <<"Salary:", "w">>

ParseTexts ==
    LET bodies == SeqsUpTo(BodyAlphabet, MaxBody)
    IN  bodies \cup {Framed(b) : b \in bodies}

ParseInit ==
    /\ script = "parse"
    /\ pc = "input"
    /\ text \in ParseTexts
    /\ job = EmptyDict /\ event = EmptyDict
    /\ RunIdle /\ FilesAbsent

ParseJob ==
    /\ script = "parse" /\ pc = "input"
    /\ job' = parse_job_post([id |-> "p", created_time |-> "t", message |-> text])
    /\ pc' = "job"
    /\ UNCHANGED <<script, text, event, runVars, ingestFiles, rebuildFiles>>

ParseEvent ==
    /\ script = "parse" /\ pc = "job"
    /\ event' = post_to_json(text)
    /\ pc' = "event"
    /\ UNCHANGED <<script, text, job, runVars, ingestFiles, rebuildFiles>>

ParseNext == ParseJob \/ ParseEvent

SpecParse == ParseInit /\ [][ParseNext]_vars

-----------------------------------------------------------------------------
(* The feed: what the Graph API returns *)

PostPool ==
    {[id |-> "r1", created_time |-> "t1", permalink_url |-> "u1",
      message |-> <<"#recruitment", "\n", "Position:", " ", "Dev", "\n",
                    "Location:", "\n", "Type:", " ", "Remote", "\n",
                    "City:", " ", "HCMC", "\n", "Salary:", " ", "1200">>],
     [id |-> "r2", created_time |-> "t2", permalink_url |-> "u2",
      full_picture |-> <<"pic2">>,
      message |-> <<"<emoji>", "Position:", " ", "QA", " ", "#RECRUITMENT">>],
     [id |-> "r3", created_time |-> "t3", permalink_url |-> "u3",
      message |-> <<"#recruitment", "\n", "Company:", " ", "Acme">>],
     [id |-> "r4", created_time |-> "t4", permalink_url |-> "u4",
      message |-> <<"#recruitment", " ", "Position:", "Lead">>],
     [id |-> "e1", created_time |-> "t5", permalink_url |-> "u5",
      message |-> <<"#events", "\n", "Title:", " ", "Meetup", "\n",
                    "Logo:", " ", "NULL">>],
     [id |-> "e2", created_time |-> "t6", permalink_url |-> "u6",
      message |-> <<"#Events", " ", "Title:", " ", "Workshop", "\n",
                    "Categories:", " ", "iot", "|", " ", "rtos">>],
     [id |-> "e3", created_time |-> "t7", permalink_url |-> "u7",
      message |-> <<"TITLE:", " ", "Meetup", "\n", "Date:", " ", "May", "\n",
                    "#events">>],
     [id |-> "f1", created_time |-> "t8", permalink_url |-> "u8",
      message |-> <<"Title:", " ", "Hello", "\n", "Description:", " ", "line",
                    "\n", "more", " ", "#a001", " ", "#CAiot", " ", "#posts">>],
     [id |-> "f2", created_time |-> "t9", permalink_url |-> "u9",
      message |-> <<"News", " ", "#POSTS", " ", "#Z999", "\n", "body">>],
     [id |-> "n1", created_time |-> "t0", permalink_url |-> "u0"]}

Feeds == SeqsUpTo(PostPool, MaxFeed)

\* the authors catalog the ingest scripts read
SampleAuthors == <<[id |-> "A001", name |-> "Jane"]>>

\* post.get("message", "")
Message(post) == IF "message" \in DOMAIN post THEN post.message ELSE <<>>

-----------------------------------------------------------------------------
(* recruitments.py: the run *)

HasId(d, id) == \E k \in 1..Len(d) : d[k].id = id

\* the mutant: a new record is appended
MergeJobAppend(d, job_json) ==
    IF ~HasId(d, job_json.id)
    THEN [data |-> Append(d, job_json),
          outcome |-> IF "title" \in DOMAIN job_json THEN "inserted" ELSE "KeyError"]
    ELSE [data |-> d, outcome |-> "skipped"]

\* the mutant: no check of the id
MergeJobNoCheck(d, job_json) ==
    [data |-> <<job_json>> \o d,
     outcome |-> IF "title" \in DOMAIN job_json THEN "inserted" ELSE "KeyError"]

\* the body of "if '#recruitment' in message.lower()": the list after it, and
\* whether the post was added, was skipped, or print(job_json['title']) raised
MergeJob(d, job_json) ==
    IF ~HasId(d, job_json.id)
    THEN [data |-> <<job_json>> \o d,
          outcome |-> IF "title" \in DOMAIN job_json THEN "inserted" ELSE "KeyError"]
    ELSE [data |-> d, outcome |-> "skipped"]

\* no process is running
Idle == pc = "start"

\* requests.get, then the load of categories/recruitments.json
RecStart ==
    /\ script = "recruitments" /\ Idle
    /\ posts' \in Feeds
    /\ data' = recruitments_json
    /\ prior' = recruitments_json
    /\ loads' = 1 /\ writes' = 0 /\ report' = <<>> /\ i' = 1
    /\ pc' = "loop"
    /\ UNCHANGED <<script, ingestFiles, rebuildFiles, parseVars>>

\* one iteration of "for post in posts"
RecStep ==
    /\ script = "recruitments" /\ pc = "loop" /\ i <= Len(posts)
    /\ LET post == posts[i]
           m == MergeJob(data, parse_job_post(post))
       IN  IF ContainsLower(Message(post), "#recruitment")
           THEN /\ data' = m.data
                /\ report' = Append(report, <<m.outcome, post.id>>)
                /\ pc' = IF m.outcome = "KeyError" THEN "failed" ELSE "loop"
           ELSE UNCHANGED <<data, report, pc>>
    /\ i' = i + 1
    /\ UNCHANGED <<script, posts, prior, loads, writes, ingestFiles, rebuildFiles,
                   parseVars>>

\* json.dump(data, f)
RecSave ==
    /\ script = "recruitments" /\ pc = "loop" /\ i > Len(posts)
    /\ recruitments_json' = data
    /\ writes' = writes + 1
    /\ pc' = "done"
    /\ UNCHANGED <<script, posts, i, data, prior, loads, report, events_json,
                   facebook_posts_json, rebuildFiles, parseVars>>

-----------------------------------------------------------------------------
(* events.py: the run *)

\* insert_event: the list it leaves, and whether it wrote it
insert_event(events, event_data) ==
    IF \E k \in 1..Len(events) : events[k].title = event_data.title
    THEN [data |-> events, outcome |-> "skipped"]
    ELSE [data |-> <<event_data>> \o events, outcome |-> "inserted"]

\* fetch_facebook_posts()
EvStart ==
    /\ script = "events" /\ Idle
    /\ posts' \in Feeds
    /\ data' = <<>>
    /\ prior' = events_json
    /\ loads' = 0 /\ writes' = 0 /\ report' = <<>> /\ i' = 1
    /\ pc' = "loop"
    /\ UNCHANGED <<script, ingestFiles, rebuildFiles, parseVars>>

\* one iteration of "for post in posts": insert_event reads the file, and writes
\* it when it inserts
EvStep ==
    /\ script = "events" /\ pc = "loop" /\ i <= Len(posts)
    /\ LET message == Message(posts[i])
           event_json == post_to_json(message)
           m == insert_event(events_json, event_json)
       IN  IF message # <<>> /\ ContainsLower(message, "#events")
           THEN /\ data' = m.data
                /\ loads' = loads + 1
                /\ report' = Append(report, <<m.outcome, event_json.title>>)
                /\ IF m.outcome = "inserted"
                   THEN events_json' = m.data /\ writes' = writes + 1
                   ELSE UNCHANGED <<events_json, writes>>
           ELSE UNCHANGED <<data, loads, report, events_json, writes>>
    /\ i' = i + 1
    /\ UNCHANGED <<script, pc, posts, prior, recruitments_json,
                   facebook_posts_json, rebuildFiles, parseVars>>

\* the end of the loop
EvExit ==
    /\ script = "events" /\ pc = "loop" /\ i > Len(posts)
    /\ pc' = "done"
    /\ UNCHANGED <<script, runVars, ingestFiles, rebuildFiles, parseVars>>

-----------------------------------------------------------------------------
(* facebook_posts.py: the run *)

\* "#" + a letter + three digits, and the upper case of what follows "#"
AuthorTags == {<<"#a001", "A001">>, <<"#Z999", "Z999">>}

\* "#CA" + a word, and the word
CategoryTags == {<<"#CAiot", "iot">>}

\* pattern.search(message).group(1) of a hashtag pattern, <<>> when none matches
FirstTag(message, tags) ==
    LET at == {k \in 1..Len(message) : \E t \in tags : t[1] = message[k]}
    IN  IF at = {} THEN <<>>
        ELSE LET k == CHOOSE q \in at : \A m \in at : q <= m
             IN  <<(CHOOSE t \in tags : t[1] = message[k])[2]>>

Lookup(catalog, id) ==
    IF \E k \in 1..Len(catalog) : catalog[k].id = id
    THEN <<catalog[CHOOSE k \in 1..Len(catalog) :
                      catalog[k].id = id
                      /\ \A m \in (k + 1)..Len(catalog) : catalog[m].id # id]>>
    ELSE <<>>

\* the clean_post built from a post with a message
clean_post(post, authors_data) ==
    LET message == post.message
        title_match == SearchLine("Title:", message, TRUE)
        description_match == SearchRest("Description:", message)
        author_id == FirstTag(message, AuthorTags)
        author == IF author_id = <<>> THEN <<>> ELSE Lookup(authors_data, author_id[1])
        category == FirstTag(message, CategoryTags)
    IN  [id |-> post.id,
         title |-> IF title_match.found /\ Strip(title_match.group) # <<>>
                   THEN Strip(title_match.group)
                   ELSE Strip(FirstLine(message)),
         description |-> IF description_match.found
                         THEN Str(Strip(description_match.group)) ELSE None,
         created_time |-> post.created_time,
         permalink_url |-> post.permalink_url,
         full_picture |-> Get(post, "full_picture")]
        @@ Entry(author # <<>>, "author", author[1])
        @@ Entry(category # <<>>, "category", category[1])

\* the load of authors.json, requests.get, and facebook_posts = []
FbStart ==
    /\ script = "facebook_posts" /\ Idle
    /\ posts' \in Feeds
    /\ data' = <<>>
    /\ prior' = facebook_posts_json
    /\ loads' = 0 /\ writes' = 0 /\ report' = <<>> /\ i' = 1
    /\ pc' = "loop"
    /\ UNCHANGED <<script, ingestFiles, rebuildFiles, parseVars>>

\* one iteration of "for post in data.get('data', [])"
FbStep ==
    /\ script = "facebook_posts" /\ pc = "loop" /\ i <= Len(posts)
    /\ LET message == Message(posts[i])
       IN  IF message # <<>> /\ ContainsLower(message, "#posts")
           THEN /\ data' = Append(data, clean_post(posts[i], authors_json))
                /\ report' = Append(report, <<"appended", posts[i].id>>)
           ELSE UNCHANGED <<data, report>>
    /\ i' = i + 1
    /\ UNCHANGED <<script, pc, posts, prior, loads, writes, ingestFiles,
                   rebuildFiles, parseVars>>

\* "if facebook_posts: json.dump(facebook_posts, f)"
FbSave ==
    /\ script = "facebook_posts" /\ pc = "loop" /\ i > Len(posts)
    /\ IF data # <<>>
       THEN facebook_posts_json' = data /\ writes' = writes + 1
       ELSE UNCHANGED <<facebook_posts_json, writes>>
    /\ pc' = "done"
    /\ UNCHANGED <<script, posts, i, data, prior, loads, report,
                   recruitments_json, events_json, rebuildFiles, parseVars>>

-----------------------------------------------------------------------------
(* The ingest scripts, each run again and again on its own store *)

Init ==
    /\ script \in {"recruitments", "events", "facebook_posts"}
    /\ pc = "start"
    /\ RunIdle
    /\ recruitments_json = <<>> /\ events_json = <<>> /\ facebook_posts_json = <<>>
    /\ companies_json = <<>>
    /\ authors_json = SampleAuthors
    /\ ParseIdle

\* the process ends, after its last statement or on the exception: what it held
\* in memory is gone, the files stay
Exit ==
    /\ pc \in {"done", "failed"}
    /\ pc' = "start"
    /\ posts' = <<>> /\ i' = 1 /\ data' = <<>> /\ prior' = <<>>
    /\ loads' = 0 /\ writes' = 0 /\ report' = <<>>
    /\ UNCHANGED <<script, ingestFiles, rebuildFiles, parseVars>>

Next ==
    \/ RecStart \/ RecStep \/ RecSave
    \/ EvStart \/ EvStep \/ EvExit
    \/ FbStart \/ FbStep \/ FbSave
    \/ Exit

Spec == Init /\ [][Next]_vars

-----------------------------------------------------------------------------
(* companies.py *)

DigitChars == <<"0", "1", "2", "3", "4", "5", "6", "7", "8", "9">>

\* str(n)
RECURSIVE Decimal(_)
Decimal(n) ==
    IF n < 10 THEN <<DigitChars[n + 1]>>
    ELSE Append(Decimal(n \div 10), DigitChars[(n % 10) + 1])

\* f"{n:02d}"
Pad2(n) == IF n < 10 THEN <<"0">> \o Decimal(n) ELSE Decimal(n)

\* new_company = {"id": cid}; new_company.update(company)
WithId(cid, company) ==
    [k \in {"id"} \cup DOMAIN company |->
        IF k \in DOMAIN company THEN company[k] ELSE cid]

\* the loop over companies, from the counters it has reached
RECURSIVE AssignIds(_, _, _)
AssignIds(companies, vn_count, ob_count) ==
    IF companies = <<>> THEN <<>>
    ELSE LET company == Head(companies)
             vietnam == "country" \in DOMAIN company /\ company.country = "Vietnam"
             cid == IF vietnam THEN <<"COMVN">> \o Pad2(vn_count)
                    ELSE <<"COMOB">> \o Pad2(ob_count)
         IN  <<WithId(cid, company)>>
                 \o AssignIds(Tail(companies),
                              IF vietnam THEN vn_count + 1 ELSE vn_count,
                              IF vietnam THEN ob_count ELSE ob_count + 1)

\* the records a maintainer adds to categories/companies.json
CompanyPool ==
    {[name |-> "a", country |-> "Vietnam"], [name |-> "b", country |-> "Japan"],
     [name |-> "c"], [name |-> "d", country |-> "Vietnam"]}

InsertAt(s, k, x) == SubSeq(s, 1, k - 1) \o <<x>> \o SubSeq(s, k, Len(s))

\* a maintainer adds a company to the file
AddCompany ==
    /\ script = "companies" /\ pc = "start"
    /\ Len(companies_json) < MaxCompanies
    /\ \E c \in CompanyPool, k \in 1..(Len(companies_json) + 1) :
          companies_json' = InsertAt(companies_json, k, c)
    /\ UNCHANGED <<script, pc, runVars, ingestFiles, authors_json, parseVars>>

\* a maintainer moves the first company of the file to its end
MoveCompany ==
    /\ script = "companies" /\ pc = "start"
    /\ Len(companies_json) > 1
    /\ companies_json' = Append(Tail(companies_json), Head(companies_json))
    /\ UNCHANGED <<script, pc, runVars, ingestFiles, authors_json, parseVars>>

\* the script: load, assign, write
CompaniesRun ==
    /\ script = "companies" /\ pc = "start"
    /\ prior' = companies_json
    /\ data' = AssignIds(companies_json, 1, 1)
    /\ companies_json' = AssignIds(companies_json, 1, 1)
    /\ loads' = 1 /\ writes' = 1
    /\ pc' = "done"
    /\ UNCHANGED <<script, posts, i, report, ingestFiles, authors_json, parseVars>>

CompaniesInit ==
    /\ script = "companies"
    /\ pc = "start"
    /\ RunIdle /\ FilesAbsent /\ ParseIdle

CompaniesNext == AddCompany \/ MoveCompany \/ CompaniesRun \/ Exit

SpecCompanies == CompaniesInit /\ [][CompaniesNext]_vars

\* the place of record k among the records of its partition, counting from 1
PartitionPosition(companies, k) ==
    LET vietnam(c) == "country" \in DOMAIN c /\ c.country = "Vietnam"
    IN  Cardinality({m \in 1..k : vietnam(companies[m]) = vietnam(companies[k])})

\* C8: each output record's id is its partition prefix followed by the two-digit
\* position of the record in its partition, whether or not the input records
\* carried an id.
C8_SequentialIds ==
    (script = "companies" /\ pc = "done") =>
        /\ Len(companies_json) = Len(prior)
        /\ \A k \in 1..Len(prior) :
              companies_json[k].id =
                  (IF "country" \in DOMAIN prior[k] /\ prior[k].country = "Vietnam"
                   THEN <<"COMVN">> ELSE <<"COMOB">>)
                      \o Pad2(PartitionPosition(prior, k))

-----------------------------------------------------------------------------
(* roles_and_badges.py *)

\* a reference by id, and the entity of the catalog the script puts in its place
Ref(id) == [kind |-> "id", id |-> id]
Entity(id) == [kind |-> "entity", id |-> id]

\* roles_and_badges.json
roles_and_badges ==
    [roles |-> <<Entity("R1")>>,
     badges |-> [gold |-> <<Entity("B1")>>, silver |-> <<Entity("B2")>>]]

\* the keys of role_map and of badge_map
RoleIds == {roles_and_badges.roles[k].id : k \in 1..Len(roles_and_badges.roles)}

BadgeIds ==
    UNION {{roles_and_badges.badges[c][k].id :
               k \in 1..Len(roles_and_badges.badges[c])} :
           c \in DOMAIN roles_and_badges.badges}

\* "x in role_map" hashes x: a dict is unhashable and raises TypeError
Unhashable(x) == x.kind = "entity"

\* the role part of one iteration: the author after it, or the TypeError
ReplaceRole(author) ==
    IF "roles" \in DOMAIN author
    THEN IF Unhashable(author.roles) THEN [raised |-> TRUE, author |-> author]
         ELSE IF author.roles.id \in RoleIds
              THEN [raised |-> FALSE,
                    author |-> [author EXCEPT !.roles = Entity(author.roles.id)]]
              ELSE [raised |-> FALSE, author |-> author]
    ELSE [raised |-> FALSE, author |-> author]

\* the badge part of one iteration
ReplaceBadges(author) ==
    IF "badges" \in DOMAIN author /\ author.badges # <<>>
    THEN IF \E k \in 1..Len(author.badges) : Unhashable(author.badges[k])
         THEN [raised |-> TRUE, author |-> author]
         ELSE LET found == SelectSeq(author.badges, LAMBDA b : b.id \in BadgeIds)
              IN  [raised |-> FALSE,
                   author |-> [author EXCEPT !.badges =
                                  [k \in 1..Len(found) |-> Entity(found[k].id)]]]
    ELSE [raised |-> FALSE, author |-> author]

\* the authors of authors/authors.json as a maintainer writes them
AuthorPool ==
    LET roles == {[k \in {} |-> None], [roles |-> Ref("R1")], [roles |-> Ref("R9")]}
        badges == {[k \in {} |-> None], [badges |-> <<>>],
                   [badges |-> <<Ref("B9"), Ref("B2")>>],
                   [badges |-> <<Ref("B2"), Ref("B1")>>]}
    IN  {[id |-> "A001"] @@ r @@ b : r \in roles, b \in badges}

\* the loads of authors.json and roles_and_badges.json, and the two maps
AuthStart ==
    /\ script = "roles_and_badges" /\ pc = "start"
    /\ data' = authors_json
    /\ prior' = authors_json
    /\ loads' = 1 /\ i' = 1
    /\ pc' = "loop"
    /\ UNCHANGED <<script, posts, writes, report, ingestFiles, rebuildFiles,
                   parseVars>>

\* one iteration of "for author in authors"
AuthStep ==
    /\ script = "roles_and_badges" /\ pc = "loop" /\ i <= Len(data)
    /\ LET r == ReplaceRole(data[i])
           b == ReplaceBadges(r.author)
       IN  IF r.raised
           THEN pc' = "failed" /\ UNCHANGED data
           ELSE /\ data' = [data EXCEPT ![i] = b.author]
                /\ pc' = IF b.raised THEN "failed" ELSE "loop"
    /\ i' = i + 1
    /\ UNCHANGED <<script, posts, prior, loads, writes, report, ingestFiles,
                   rebuildFiles, parseVars>>

\* json.dump(authors, f)
AuthSave ==
    /\ script = "roles_and_badges" /\ pc = "loop" /\ i > Len(data)
    /\ authors_json' = data
    /\ writes' = writes + 1
    /\ pc' = "done"
    /\ UNCHANGED <<script, posts, i, data, prior, loads, report, ingestFiles,
                   companies_json, parseVars>>

AuthorsInit ==
    /\ script = "roles_and_badges"
    /\ pc = "start"
    /\ RunIdle /\ ParseIdle
    /\ recruitments_json = <<>> /\ events_json = <<>> /\ facebook_posts_json = <<>>
    /\ companies_json = <<>>
    /\ authors_json \in SeqsUpTo(AuthorPool, MaxAuthors)

AuthorsNext == AuthStart \/ AuthStep \/ AuthSave \/ Exit

SpecAuthors == AuthorsInit /\ [][AuthorsNext]_vars

\* the badges the claim expects: the entities of the resolvable ids, in order
ExpectedBadges(badges) ==
    LET ids == [k \in 1..Len(badges) |-> badges[k].id]
        found == SelectSeq(ids, LAMBDA b : b \in BadgeIds)
    IN  [k \in 1..Len(found) |-> Entity(found[k])]

\* C9: the enrichment run never aborts, also on a Collection that an earlier run
\* rewrote, and what it writes has each resolvable role id replaced by its
\* entity, each unresolvable one left, and the badges replaced by the entities of
\* the resolvable ids in their order.
C9_EnrichmentNeverAborts ==
    script = "roles_and_badges" =>
        /\ pc # "failed"
        /\ pc = "done" =>
              /\ Len(authors_json) = Len(prior)
              /\ \A k \in 1..Len(prior) :
                    /\ DOMAIN authors_json[k] = DOMAIN prior[k]
                    /\ "roles" \in DOMAIN prior[k] =>
                          authors_json[k].roles =
                              IF prior[k].roles.id \in RoleIds
                              THEN Entity(prior[k].roles.id) ELSE prior[k].roles
                    /\ "badges" \in DOMAIN prior[k] =>
                          authors_json[k].badges = ExpectedBadges(prior[k].badges)

-----------------------------------------------------------------------------
(* Claims about the ingest scripts, checked under Spec *)

\* the store of the script that runs
Store ==
    IF script = "recruitments" THEN recruitments_json
    ELSE IF script = "events" THEN events_json
    ELSE facebook_posts_json

UniqueBy(collection, key) ==
    \A a, b \in 1..Len(collection) :
        collection[a][key] = collection[b][key] => a = b

IsSuffix(old, new) ==
    /\ Len(old) <= Len(new)
    /\ SubSeq(new, Len(new) - Len(old) + 1, Len(new)) = old

\* C1: identity keys are unique in every persisted Collection, whatever the feeds
\* held: ids in the recruitments store, titles in the events store, ids in the
\* facebook posts store.
C1_IdentityKeysUnique ==
    /\ UniqueBy(recruitments_json, "id")
    /\ UniqueBy(events_json, "title")
    /\ UniqueBy(facebook_posts_json, "id")

\* the candidates the posts of the pool parse to
PoolJobs == {parse_job_post(p) : p \in PostPool}

PoolEvents == {post_to_json(Message(p)) : p \in PostPool}

C3_PersistedRecordsKept ==
    [][/\ IsSuffix(recruitments_json, recruitments_json')
       /\ IsSuffix(events_json, events_json')
       /\ IsSuffix(facebook_posts_json, facebook_posts_json')]_vars

\* the candidates of a feed, in feed order
Candidates ==
    IF script = "recruitments"
    THEN LET tagged == SelectSeq(posts,
                 LAMBDA p : ContainsLower(Message(p), "#recruitment"))
         IN  [k \in 1..Len(tagged) |-> parse_job_post(tagged[k])]
    ELSE LET tagged == SelectSeq(posts,
                 LAMBDA p : Message(p) # <<>> /\ ContainsLower(Message(p), "#events"))
         IN  [k \in 1..Len(tagged) |-> post_to_json(Message(tagged[k]))]

\* the candidates whose key is not among seen, each key once, in order
RECURSIVE NewInOrder(_, _, _)
NewInOrder(cands, key, seen) ==
    IF cands = <<>> THEN <<>>
    ELSE IF Head(cands)[key] \in seen
         THEN NewInOrder(Tail(cands), key, seen)
         ELSE <<Head(cands)>>
                  \o NewInOrder(Tail(cands), key, seen \cup {Head(cands)[key]})

Reverse(s) == [k \in 1..Len(s) |-> s[Len(s) + 1 - k]]

KeysOf(collection, key) == {collection[k][key] : k \in 1..Len(collection)}

IdentityKey == IF script = "recruitments" THEN "id" ELSE "title"

\* C4: after a run the new records are at the front of the Collection, the last
\* processed first, and the records persisted before follow in their order.
C4_NewestFirst ==
    (script \in {"recruitments", "events"} /\ pc = "done") =>
        Store = Reverse(NewInOrder(Candidates, IdentityKey, KeysOf(prior, IdentityKey)))
                    \o prior

\* a run inserted two records in front of a store that held some
C4_Witness ==
    /\ script = "recruitments" /\ pc = "done"
    /\ prior # <<>>
    /\ Len(recruitments_json) = Len(prior) + 2

\* C5: a run of recruitments or events loads the Collection once and writes the
\* store once at most, at its end: until then, and when it fails, the store is the
\* one from before the run.
C5_SingleWriteAtEnd ==
    script \in {"recruitments", "events"} =>
        /\ loads <= 1
        /\ writes <= 1
        /\ pc \in {"loop", "failed"} => (writes = 0 /\ Store = prior)

\* C6: a label missing from a tagged post never fails the run.
C6_MissingLabelNeverFails == script = "recruitments" => pc # "failed"

-----------------------------------------------------------------------------
(* Claims about the parsers, checked under SpecParse *)

\* C7: the Record a parser produces has a key for every field of its grammar,
\* whatever the text: a field whose label is not found is present with its default.
C7_RecordShape ==
    /\ pc \in {"job", "event"} => DOMAIN job = JobFields
    /\ pc = "event" => DOMAIN event = EventFields

SubLabelOf == [type |-> "Type:", address |-> "Address:", city |-> "City:"]

FirstIndex(s, t) ==
    CHOOSE k \in 1..Len(s) : s[k] = t /\ \A m \in 1..(k - 1) : s[m] # t

\* the text has a Location block: a "Location:" and, one token or more later, a
\* "Salary:"
HasLocationBlock(s) ==
    \E p \in 1..Len(s) : s[p] = "Location:" /\ \E e \in (p + 2)..Len(s) : s[e] = "Salary:"

\* the tokens between the first "Location:" and the first "Salary:" that follows
LocationBlock(s) ==
    LET p == FirstIndex(s, "Location:")
        rest == SubSeq(s, p + 2, Len(s))
    IN  SubSeq(s, p + 1, p + FirstIndex(rest, "Salary:"))

Occurs(s, t) == \E k \in 1..Len(s) : s[k] = t

\* what follows the first occurrence of the sub-label in the block
AfterLabel(block, label) == SubSeq(block, FirstIndex(block, label) + 1, Len(block))

\* the text that belongs to a sub-label: what follows it, up to the next
\* sub-label or the end of the line
OwnText(block, label) == Strip(UpToLabel(FirstLine(AfterLabel(block, label))))

\* the rest of the line on which the text after the sub-label starts
RestOfLine(block, label) == Strip(FirstLine(Strip(AfterLabel(block, label))))

Parsed == script = "parse" /\ pc # "input"

\* C10 as stated: the location of a text with a Location block has exactly the keys
\* type, address and city; the value of a sub-label of the block is only the text
\* that belongs to it, and the value of a sub-label not in the block is empty.
C10_SubLabelOwnText ==
    (Parsed /\ HasLocationBlock(text)) =>
        /\ "location" \in DOMAIN job
        /\ DOMAIN job.location = {"type", "address", "city"}
        /\ \A k \in {"type", "address", "city"} :
              job.location[k] =
                  IF Occurs(LocationBlock(text), SubLabelOf[k])
                  THEN OwnText(LocationBlock(text), SubLabelOf[k])
                  ELSE <<>>

\* C10 as amended: the value of a sub-label of the block is the text after its
\* first occurrence, from the first token that is not blank to the end of that
\* line, trimmed (other sub-labels of the line included), and empty when only
\* blanks follow; the value of a sub-label not in the block is empty.
C10_SubLabelRestOfLine ==
    (Parsed /\ HasLocationBlock(text)) =>
        /\ "location" \in DOMAIN job
        /\ DOMAIN job.location = {"type", "address", "city"}
        /\ \A k \in {"type", "address", "city"} :
              job.location[k] =
                  IF Occurs(LocationBlock(text), SubLabelOf[k])
                  THEN RestOfLine(LocationBlock(text), SubLabelOf[k])
                  ELSE <<>>

\* a one-line block "Type: w Address: w" was parsed: type holds the Address label
C10_Witness ==
    /\ Parsed /\ HasLocationBlock(text)
    /\ LocationBlock(text) = <<"Type:", "w", "Address:", "w">>
    /\ job.location.type = <<"w", "Address:", "w">>
    /\ job.location.address = <<"w">>
    /\ job.location.city = <<>>

====
